---------------------------- MODULE Spec2Model ----------------------------
(***************************************************************************)
(* A model of yannickl88/websocket (src/websocket.py): the frame codecs    *)
(* (FrameMessageCodec, MaskedFrameMessageCodec), the URI parsing of the    *)
(* WebSocket constructor and the connection operations connect, handshake, *)
(* send, receive and close over a socket.                                  *)
(*                                                                         *)
(* Text is modelled as a sequence of code points and bytes as a sequence   *)
(* of integers 0..255.  Three specifications share the variables:          *)
(*   Spec       the connection operations on a constructed WebSocket       *)
(*   CodecSpec  encode followed by decode of one message by one codec      *)
(*   UriSpec    WebSocket.__init__ applied to one URI                      *)
(***************************************************************************)
EXTENDS Integers, Sequences, FiniteSets, TLC

VARIABLES
    conn,        \* the WebSocket object's fields: ctor outcome, host, port, path, secure
    sock,        \* self._socket: "none", "created", "connected", "closed"
    handshaken,  \* history: a handshake() has returned normally on this socket
    last,        \* history: the last operation called and what it did
    uri,         \* UriSpec: the argument of WebSocket.__init__
    cpc,         \* CodecSpec: "input", "encoded", "decoded"
    cmsg,        \* CodecSpec: the message (kind, payload) given to encode
    ccodec,      \* CodecSpec: "plain" or "masked"
    ckey,        \* CodecSpec: the key the mask factory generates
    cbytes,      \* CodecSpec: the bytes encode returned
    cout,        \* CodecSpec: what decode returned or raised
    wire,        \* StreamSpec: the bytes the socket accepted, in order
    frames,      \* StreamSpec: the frames of the send() calls that returned
    peer,        \* RecvSpec: the messages the peer wrote, in order
    inbox,       \* RecvSpec: the peer's bytes recv has not returned yet
    rcvd         \* RecvSpec: the messages receive() returned, in order

vars == <<conn, sock, handshaken, last, uri, cpc, cmsg, ccodec, ckey, cbytes, cout,
          wire, frames, peer, inbox, rcvd>>

connVars == <<conn, sock, handshaken, last>>
codecVars == <<cpc, cmsg, ccodec, ckey, cbytes, cout>>
wireVars == <<wire, frames, peer, inbox, rcvd>>

-----------------------------------------------------------------------------
(* Bounds of the model *)

\* longest payload text, in code points
MaxLen == 2

\* code points a payload is built from: NUL, 'a', DEL, and three above 127
Chars == {0, 97, 127, 128, 233, 255}

\* keys the mask factory may generate (random.randint(0, 255) four times)
MaskKeys == {<<0, 0, 0, 0>>, <<37, 234, 102, 179>>, <<255, 128, 1, 127>>}

\* frame kinds a caller may pass: the five named ones and one unknown to the codec
Kinds == {"text", "binary", "close", "ping", "pong", "continuation"}

NamedKinds == {"text", "binary", "close", "ping", "pong"}

RECURSIVE SeqsUpTo(_, _)
SeqsUpTo(S, n) ==
    IF n = 0 THEN {<<>>}
    ELSE LET shorter == SeqsUpTo(S, n - 1)
         IN  shorter \cup {Append(s, c) : s \in {t \in shorter : Len(t) = n - 1}, c \in S}

Payloads == SeqsUpTo(Chars, MaxLen)

\* longest text sent or received over a connection, and its code points: 'a', e-acute
MaxSentLen == 1

SentChars == {97, 233}

-----------------------------------------------------------------------------
(* Bytes *)

RECURSIVE BitXor(_, _, _)
\* a ^ b on the low n bits
BitXor(a, b, n) ==
    IF n = 0 THEN 0
    ELSE (((a % 2) + (b % 2)) % 2) + (2 * BitXor(a \div 2, b \div 2, n - 1))

Xor8(a, b) == BitXor(a, b, 8)

RECURSIVE Flatten(_)
Flatten(ss) == IF ss = <<>> THEN <<>> ELSE Head(ss) \o Flatten(Tail(ss))

\* str.encode() of one code point: UTF-8
Utf8(cp) ==
    IF cp < 128 THEN <<cp>>
    ELSE IF cp < 2048 THEN <<192 + (cp \div 64), 128 + (cp % 64)>>
    ELSE <<224 + (cp \div 4096), 128 + ((cp \div 64) % 64), 128 + (cp % 64)>>

\* data[1].encode(): a text of code points below 128 is its own encoding
StrEncode(text) ==
    IF \A i \in 1..Len(text) : text[i] < 128 THEN text
    ELSE Flatten([i \in 1..Len(text) |-> Utf8(text[i])])

RECURSIVE BigEndian(_, _)
\* size as n bytes, most significant first ('{0:0Nb}'.format(size) cut in 8-bit groups)
BigEndian(size, n) ==
    IF n = 0 THEN <<>> ELSE Append(BigEndian(size \div 256, n - 1), size % 256)

RECURSIVE FromBigEndian(_)
\* int(<the bytes' bits>, 2)
FromBigEndian(bs) ==
    IF bs = <<>> THEN 0
    ELSE (256 * FromBigEndian(SubSeq(bs, 1, Len(bs) - 1))) + bs[Len(bs)]

-----------------------------------------------------------------------------
(* FrameMessageCodec and MaskedFrameMessageCodec *)

\* the first byte encode appends: none for a kind it has no branch for
OpcodeBytes(kind) ==
    IF kind = "text" THEN <<129>>
    ELSE IF kind = "close" THEN <<136>>
    ELSE IF kind = "ping" THEN <<137>>
    ELSE IF kind = "pong" THEN <<138>>
    ELSE <<>>

\* FrameMessageCodec._yield_size_key
yield_size_key(data) ==
    IF Len(data) > 65535 THEN 127
    ELSE IF Len(data) > 125 THEN 126
    ELSE Len(data)

\* MaskedFrameMessageCodec._yield_size_key
masked_yield_size_key(data) == 128 + yield_size_key(data)

\* the extended length field with the 16-bit boundary one too high
SizeBytes_late(size) ==
    IF size > 65535 THEN BigEndian(size, 8)
    ELSE IF size > 126 THEN BigEndian(size, 2)
    ELSE <<>>

\* the extended length field of encode
SizeBytes(size) ==
    IF size > 65535 THEN BigEndian(size, 8)
    ELSE IF size > 125 THEN BigEndian(size, 2)
    ELSE <<>>

\* FrameMessageCodec._yield_bytes
yield_bytes(data) == data

\* MaskedFrameMessageCodec._yield_bytes, with the key the factory generated
masked_yield_bytes(data, mask) ==
    mask \o [i \in 1..Len(data) |-> Xor8(data[i], mask[((i - 1) % 4) + 1])]

\* FrameMessageCodec.encode
encode(msg) ==
    LET payload_data == StrEncode(msg.payload)
    IN  OpcodeBytes(msg.kind) \o <<yield_size_key(payload_data)>>
          \o SizeBytes(Len(payload_data)) \o yield_bytes(payload_data)

\* MaskedFrameMessageCodec.encode (the inherited encode with the overridden hooks)
masked_encode(msg, mask) ==
    LET payload_data == StrEncode(msg.payload)
    IN  OpcodeBytes(msg.kind) \o <<masked_yield_size_key(payload_data)>>
          \o SizeBytes(Len(payload_data)) \o masked_yield_bytes(payload_data, mask)

NoKind == "none"

Raised(e) == [err |-> e, kind |-> NoKind, payload |-> <<>>]

Returned(k, p) == [err |-> "none", kind |-> k, payload |-> p]

\* the opcode dispatch with a default kind in place of the raise
KindOfCode_lenient(code) ==
    IF code = 1 THEN "text"
    ELSE IF code = 2 THEN "binary"
    ELSE IF code = 8 THEN "close"
    ELSE IF code = 9 THEN "ping"
    ELSE IF code = 10 THEN "pong"
    ELSE "text"

\* the opcode dispatch of decode
KindOfCode(code) ==
    IF code = 1 THEN "text"
    ELSE IF code = 2 THEN "binary"
    ELSE IF code = 8 THEN "close"
    ELSE IF code = 9 THEN "ping"
    ELSE IF code = 10 THEN "pong"
    ELSE NoKind

\* offset of the payload in data[1:], by the length code
PlainOffset(size) == IF size = 127 THEN 9 ELSE IF size = 126 THEN 3 ELSE 1

\* FrameMessageCodec._yield_chars: rest is data[1:], indexed from 0 in the source
yield_chars(rest, length) ==
    LET offset == PlainOffset(rest[1] % 128)
    IN  IF length > 0 /\ offset + length > Len(rest)
        THEN Raised("IndexError")
        ELSE Returned(NoKind, [i \in 1..length |-> rest[i + offset]])

\* MaskedFrameMessageCodec._yield_chars: the key is read even for an empty payload
masked_yield_chars(rest, length) ==
    LET offset == PlainOffset(rest[1] % 128) + 4
        mask == [j \in 1..4 |-> rest[offset - 4 + j]]
    IN  IF offset > Len(rest) \/ (length > 0 /\ offset + length > Len(rest))
        THEN Raised("IndexError")
        ELSE Returned(NoKind,
                 [i \in 1..length |-> Xor8(rest[i + offset], mask[((i - 1) % 4) + 1])])

\* the length decode reads: -1 when the bytes it indexes are missing
MessageLength(data) ==
    LET size == data[2] % 128
    IN  IF size = 127
        THEN IF Len(data) < 10 THEN -1 ELSE FromBigEndian(SubSeq(data, 3, 10))
        ELSE IF size = 126
        THEN IF Len(data) < 4 THEN -1 ELSE FromBigEndian(SubSeq(data, 3, 4))
        ELSE size

\* decode, shared by both codecs; masked selects the overridden _yield_chars
decode_with(data, masked) ==
    IF Len(data) < 2 THEN Raised("IndexError")
    ELSE LET message_type == KindOfCode(data[1] % 16)
             message_length == MessageLength(data)
             chars == IF masked THEN masked_yield_chars(Tail(data), message_length)
                      ELSE yield_chars(Tail(data), message_length)
         IN  IF message_type = NoKind THEN Raised("UnknownType")
             ELSE IF message_length < 0 THEN Raised("IndexError")
             ELSE IF chars.err # "none" THEN chars
             ELSE Returned(message_type, chars.payload)

\* FrameMessageCodec.decode
decode(data) == decode_with(data, FALSE)

\* MaskedFrameMessageCodec.decode
masked_decode(data) == decode_with(data, TRUE)

-----------------------------------------------------------------------------
(* WebSocket.__init__: strings are sequences of character codes *)

\* the character classes of the pattern: [a-z], [0-9], [^/:]
InClass(c, class) ==
    IF class = "lower" THEN c >= 97 /\ c <= 122
    ELSE IF class = "digit" THEN c >= 48 /\ c <= 57
    ELSE c # 47 /\ c # 58

RECURSIVE RunLen(_, _, _)
\* length of the longest run of characters of the class that starts at s[from]
RunLen(s, from, class) ==
    IF from <= Len(s) /\ InClass(s[from], class)
    THEN 1 + RunLen(s, from + 1, class)
    ELSE 0

RECURSIVE ParseInt(_)
\* int() of a string of decimal digits
ParseInt(digits) ==
    IF digits = <<>> THEN 0
    ELSE (10 * ParseInt(SubSeq(digits, 1, Len(digits) - 1))) + (digits[Len(digits)] - 48)

NoMatch == [matched |-> FALSE, scheme |-> <<>>, host |-> <<>>, hasPort |-> FALSE,
            portDigits |-> <<>>, path |-> <<>>]

\* re.search('^([a-z]+)://([^/:]+)(:([0-9]+))?(/.*)$', host): every class is
\* followed by a character outside it, so each greedy run is the only candidate
UriMatch(s) ==
    LET n1 == RunLen(s, 1, "lower")
        h0 == n1 + 4
        n2 == RunLen(s, h0, "host")
        p0 == h0 + n2
        n3 == RunLen(s, p0 + 1, "digit")
        hasPort == p0 <= Len(s) /\ s[p0] = 58
        q0 == IF hasPort THEN p0 + 1 + n3 ELSE p0
    IN  IF n1 = 0 \/ Len(s) < n1 + 3 \/ SubSeq(s, n1 + 1, n1 + 3) # <<58, 47, 47>>
             \/ n2 = 0 \/ (hasPort /\ n3 = 0) \/ q0 > Len(s) \/ s[q0] # 47
        THEN NoMatch
        ELSE [matched |-> TRUE, scheme |-> SubSeq(s, 1, n1), host |-> SubSeq(s, h0, p0 - 1),
              hasPort |-> hasPort,
              portDigits |-> IF hasPort THEN SubSeq(s, p0 + 1, q0 - 1) ELSE <<>>,
              path |-> SubSeq(s, q0, Len(s))]

SchemeWs == <<119, 115>>
SchemeWss == <<119, 115, 115>>

NoConn(e) == [ctor |-> e, scheme |-> <<>>, host |-> <<>>, port |-> 0, path |-> <<>>,
              secure |-> FALSE]

\* the socket factory __init__ picks when none is passed: SslSocketFactory or SocketFactory
UsesSslFactory(port) == port = 443

\* WebSocket.__init__(host): the object built, or the exception raised
init(s) ==
    LET match == UriMatch(s)
        port == IF match.hasPort THEN ParseInt(match.portDigits)
                ELSE IF match.scheme = SchemeWss THEN 443
                ELSE 80
    IN  IF ~match.matched THEN NoConn("AttributeError")
        ELSE IF match.scheme \notin {SchemeWs, SchemeWss} THEN NoConn("ValueError")
        ELSE [ctor |-> "ok", scheme |-> match.scheme, host |-> match.host, port |-> port,
              path |-> match.path, secure |-> UsesSslFactory(port)]

\* URIs tried: scheme x "://h" x port part x path
UriSchemes == {SchemeWs, SchemeWss, <<104, 116, 116, 112>>, <<87, 83>>, <<>>}
UriPorts == {<<>>, <<58, 56, 48>>, <<58, 52, 52, 51>>, <<58, 56, 52, 52, 51>>, <<58>>,
             <<58, 120>>}
UriPaths == {<<>>, <<47>>, <<47, 120>>}
Uris == {sc \o <<58, 47, 47, 104>> \o po \o pa :
            sc \in UriSchemes, po \in UriPorts, pa \in UriPaths}

\* the URIs connections are built from: "ws://h/x", "wss://h:8443/x"
ConnUris == {<<119, 115, 58, 47, 47, 104, 47, 120>>,
             <<119, 115, 115, 58, 47, 47, 104, 58, 56, 52, 52, 51, 47, 120>>}

-----------------------------------------------------------------------------
(* SocketKey and the handshake response *)

\* values SocketKey() may take (stand-ins for the base64 text of a random digest)
Nonces == {1, 2}

\* base64(sha1(key + server_uuid)): a stand-in that, like the digest, maps
\* distinct keys to distinct tokens, none of them a key
AcceptOf(key) == key + 100

\* a check that takes the accept token of any key
valid_any_key(key, token) == token \in {AcceptOf(k) : k \in Nonces}

\* SocketKey.valid
valid(key, token) == token = AcceptOf(key)

NoHeader == -1

Word(t, v) == [t |-> t, v |-> v]
Txt == Word("text", 0)

\* status lines after split(' '): "HTTP/1.1 200 OK", "HTTP/1.1 101 Switching Protocols",
\* "HTTP/1.1 204 No Content", "HTTP/1.1 404 Not Found", "HTTP/1.1  200" (two spaces),
\* "HTTP/1.1 abc", "garbage"
StatusLines == {<<Txt, Word("num", 200), Txt>>, <<Txt, Word("num", 101), Txt, Txt>>,
                <<Txt, Word("num", 204), Txt, Txt>>, <<Txt, Word("num", 404), Txt, Txt>>,
                <<Txt, Word("empty", 0), Word("num", 200)>>, <<Txt, Txt>>, <<Txt>>}

\* the Sec-WebSocket-Accept header of a response: absent, a wrong token, or the
\* token of some key
AcceptValues == {NoHeader, 0} \cup {AcceptOf(k) : k \in Nonces}

NoResp == [raw |-> <<>>, line |-> <<>>, accept |-> NoHeader]

\* what recv yields to handshake: no bytes, or bytes (raw keeps their first four,
\* "HTTP") that HttpMessageCodec.decode turns into a status line and headers
Responses == {NoResp} \cup
    {[raw |-> <<72, 84, 84, 80>>, line |-> l, accept |-> a] :
        l \in StatusLines, a \in AcceptValues}

\* HttpMessage.status: the code, or the exception the indexing or int() raises
status(line) ==
    IF Len(line) < 2 THEN [err |-> "IndexError", code |-> 0]
    ELSE IF line[2].t = "empty" THEN [err |-> "none", code |-> 500]
    ELSE IF line[2].t = "num" THEN [err |-> "none", code |-> line[2].v]
    ELSE [err |-> "ValueError", code |-> 0]

\* the response checks of handshake without the close() calls
handshake_checks_leaking(resp, key) ==
    LET st == status(resp.line)
    IN  IF st.err # "none" THEN [err |-> st.err, closes |-> FALSE]
        ELSE IF st.code # 200 THEN [err |-> "Rejected", closes |-> FALSE]
        ELSE IF resp.accept = NoHeader THEN [err |-> "KeyError", closes |-> FALSE]
        ELSE IF ~valid(key, resp.accept) THEN [err |-> "NotValid", closes |-> FALSE]
        ELSE [err |-> "none", closes |-> FALSE]

\* the response checks of handshake: the exception raised, and whether close() ran first
handshake_checks(resp, key) ==
    LET st == status(resp.line)
    IN  IF st.err # "none" THEN [err |-> st.err, closes |-> FALSE]
        ELSE IF st.code # 200 THEN [err |-> "Rejected", closes |-> TRUE]
        ELSE IF resp.accept = NoHeader THEN [err |-> "KeyError", closes |-> FALSE]
        ELSE IF ~valid(key, resp.accept) THEN [err |-> "NotValid", closes |-> TRUE]
        ELSE [err |-> "none", closes |-> FALSE]

-----------------------------------------------------------------------------
(* The socket and the connection's operations *)

\* the connection state of the specification, read off the socket and the history
State ==
    IF sock = "none" THEN "NoObject"
    ELSE IF sock = "closed" THEN "Closed"
    ELSE IF sock = "created" THEN "Unconnected"
    ELSE IF handshaken THEN "Handshaken"
    ELSE "Connected"

NoMsg == [kind |-> NoKind, payload |-> <<>>]

\* the record of a call that has done nothing yet
Call(op) ==
    [op |-> op, before |-> State, err |-> "none",
     wrote |-> "none", offered |-> <<>>, accepted |-> 0,
     didRead |-> FALSE, read |-> <<>>, resp |-> NoResp,
     shook |-> FALSE, nonce |-> 0, arg |-> NoMsg, key |-> <<>>, ret |-> NoMsg]

\* WebSocket.close without the call that closes the socket
close_leaking(s) == s

\* WebSocket.close: self._socket.close() leaves the socket closed, whatever it was
close(s) == "closed"

\* _read_message without the length check
read_message_unchecked(data) == "none"

\* WebSocket._read_message on the data recv returned: the exception raised, if any
read_message(data) == IF Len(data) = 0 THEN "EOFError" ELSE "none"

\* the request line 'GET %s HTTP/1.1' of the upgrade request, then CR LF; the
\* header lines and body that follow it are left out of the model
RequestBytes(path) ==
    <<71, 69, 84, 32>> \o path \o <<32, 72, 84, 84, 80, 47, 49, 46, 49, 13, 10>>

\* outcomes of one socket.send(data) on a connected socket: it raises (0) or
\* accepts the first n bytes, 1 <= n <= len(data); the model keeps n = 1 and
\* n = len(data)
SendOutcomes(data) == {0} \cup {n \in 1..Len(data) : n = 1 \/ n = Len(data)}

\* what the socket does during one handshake: the outcome of send, whether recv
\* returns, and the response it returns
HandshakeIO(path) ==
    LET ns == SendOutcomes(RequestBytes(path)) \ {0}
    IN  {[n |-> 0, recvOk |-> FALSE, resp |-> NoResp]}
          \cup {[n |-> n, recvOk |-> FALSE, resp |-> NoResp] : n \in ns}
          \cup {[n |-> n, recvOk |-> TRUE, resp |-> r] : n \in ns, r \in Responses}

\* WebSocket.handshake from socket state s: the fields of the call record it sets
\* and the socket and history after it.  n is the outcome of send, recvOk whether
\* recv returns, resp what it returns
handshake(c, s, hs, key, io) ==
    LET req == RequestBytes(conn.path)
        n == io.n
        recvOk == io.recvOk
        resp == io.resp
        chk == handshake_checks(resp, key)
    IN  IF s # "connected" \/ n = 0
        THEN [call |-> [c EXCEPT !.shook = TRUE, !.nonce = key, !.err = "OSError"],
              sock |-> s, hs |-> hs]
        ELSE LET sent == [c EXCEPT !.shook = TRUE, !.nonce = key, !.wrote = "http",
                                   !.offered = req, !.accepted = n]
             IN  IF ~recvOk
                 THEN [call |-> [sent EXCEPT !.err = "OSError"], sock |-> s, hs |-> hs]
                 ELSE LET got == [sent EXCEPT !.didRead = TRUE, !.resp = resp]
                      IN  IF read_message(resp.raw) # "none"
                          THEN [call |-> [got EXCEPT !.err = "EOFError"],
                                sock |-> s, hs |-> hs]
                          ELSE [call |-> [got EXCEPT !.err = chk.err],
                                sock |-> IF chk.closes THEN close(s) ELSE s,
                                hs |-> IF chk.err = "none" THEN TRUE ELSE hs]


\* the codec receive picks: data[1] >> 7
IsMasked(data) == data[2] \div 128 = 1

\* WebSocket.receive on the data recv returned: the exception raised or the message
receive(data) ==
    IF read_message(data) # "none" THEN Raised(read_message(data))
    ELSE IF Len(data) < 2 THEN Raised("IndexError")
    ELSE IF IsMasked(data) THEN masked_decode(data)
    ELSE decode(data)

Messages == [kind : Kinds, payload : Payloads]

\* payload lengths on both sides of each length-field boundary, and the texts
\* 'aaa...a' of those lengths: every kind at the 16-bit boundary, text at the
\* 64-bit boundary
LongMessages ==
    [kind : Kinds, payload : {[i \in 1..n |-> 97] : n \in {125, 126, 127}}]
      \cup [kind : {"text"}, payload : {[i \in 1..n |-> 97] : n \in {65535, 65536}}]

\* the messages and keys the connection is driven with
SentMessages == [kind : Kinds, payload : SeqsUpTo(SentChars, MaxSentLen)]
SentKeys == {<<0, 0, 0, 0>>, <<37, 234, 102, 179>>}

\* what recv may yield to receive: nothing, a lone byte, a frame with opcode 3,
\* and the plain and masked encodings of the messages
RecvData ==
    {<<>>, <<129>>, <<131, 0>>}
      \cup {encode(m) : m \in SentMessages}
      \cup {masked_encode(m, k) : m \in SentMessages, k \in SentKeys}

\* nothing written yet
NoWire ==
    /\ wire = <<>>
    /\ frames = <<>>
    /\ peer = <<>>
    /\ inbox = <<>>
    /\ rcvd = <<>>

IdleCodec ==
    /\ cpc = "idle"
    /\ cmsg = NoMsg
    /\ ccodec = "plain"
    /\ ckey = <<>>
    /\ cbytes = <<>>
    /\ cout = Raised("none")

\* a WebSocket constructed from an accepted URI, its socket created
Init ==
    /\ uri \in ConnUris
    /\ conn = init(uri)
    /\ sock = "created"
    /\ handshaken = FALSE
    /\ last = Call("none")
    /\ IdleCodec
    /\ NoWire

\* WebSocket.connect(handshake): socket.connect raises unless the socket is
\* fresh and the peer accepts
Connect ==
    \E withHandshake \in BOOLEAN, connected \in BOOLEAN :
      \E key \in IF withHandshake /\ connected /\ sock = "created"
                 THEN Nonces ELSE {0} :
        \E io \in IF key = 0 THEN {[n |-> 0, recvOk |-> FALSE, resp |-> NoResp]}
                  ELSE HandshakeIO(conn.path) :
          LET c == Call("connect")
              h == handshake(c, "connected", handshaken, key, io)
          IN  /\ sock # "none"
              /\ IF sock # "created" \/ ~connected
                 THEN /\ last' = [c EXCEPT !.err = "OSError"]
                      /\ UNCHANGED <<sock, handshaken>>
                 ELSE IF ~withHandshake
                 THEN /\ last' = c
                      /\ sock' = "connected"
                      /\ UNCHANGED handshaken
                 ELSE /\ last' = h.call
                      /\ sock' = h.sock
                      /\ handshaken' = h.hs
              /\ UNCHANGED <<conn, uri, wireVars, codecVars>>

\* WebSocket.handshake()
Handshake ==
    \E key \in Nonces, io \in HandshakeIO(conn.path) :
        LET h == handshake(Call("handshake"), sock, handshaken, key, io)
        IN  /\ sock # "none"
            /\ last' = h.call
            /\ sock' = h.sock
            /\ handshaken' = h.hs
            /\ UNCHANGED <<conn, uri, wireVars, codecVars>>

\* WebSocket.send(msg, message_type)
SendCall(m, key, n) ==
    LET c == [Call("send") EXCEPT !.arg = m, !.key = key]
    IN  /\ sock # "none"
        /\ last' = IF sock # "connected" \/ n = 0
                   THEN [c EXCEPT !.err = "OSError"]
                   ELSE [c EXCEPT !.wrote = "frame",
                                  !.offered = masked_encode(m, key),
                                  !.accepted = n]
        /\ UNCHANGED <<conn, sock, handshaken, uri, codecVars>>

Send ==
    \E m \in SentMessages, key \in SentKeys :
      \E n \in SendOutcomes(masked_encode(m, key)) :
        /\ SendCall(m, key, n)
        /\ UNCHANGED wireVars

\* WebSocket.receive()
ReceiveCall(recvOk, data) ==
    LET c == Call("receive")
        r == receive(data)
    IN  /\ sock # "none"
        /\ last' = IF sock # "connected" \/ ~recvOk
                   THEN [c EXCEPT !.err = "OSError"]
                   ELSE [c EXCEPT !.didRead = TRUE, !.read = data, !.err = r.err,
                                  !.ret = [kind |-> r.kind, payload |-> r.payload]]
        /\ UNCHANGED <<conn, sock, handshaken, uri, codecVars>>

Receive ==
    \E recvOk \in BOOLEAN, data \in RecvData :
        /\ ReceiveCall(recvOk, data)
        /\ UNCHANGED wireVars

\* WebSocket.close()
Close ==
    /\ sock # "none"
    /\ last' = Call("close")
    /\ sock' = close(sock)
    /\ UNCHANGED <<conn, handshaken, uri, wireVars, codecVars>>

Next == Connect \/ Handshake \/ Send \/ Receive \/ Close

Spec == Init /\ [][Next]_vars

-----------------------------------------------------------------------------
(* StreamSpec: send() calls on one Handshaken connection, with the history of
   what the socket accepted *)

\* send() calls followed on one connection
MaxSends == 3

StreamMessages ==
    {[kind |-> "text", payload |-> <<97>>], [kind |-> "ping", payload |-> <<>>]}

\* a connection whose connect() and handshake() have returned
StreamInit ==
    /\ uri \in ConnUris
    /\ conn = init(uri)
    /\ sock = "connected"
    /\ handshaken = TRUE
    /\ last = Call("none")
    /\ IdleCodec
    /\ NoWire

\* WebSocket.send(), recording the bytes the socket took and, when the call
\* returns, the frame it was given
StreamSend ==
    \E m \in StreamMessages, key \in SentKeys :
      \E n \in SendOutcomes(masked_encode(m, key)) :
        /\ Len(frames) < MaxSends
        /\ SendCall(m, key, n)
        /\ IF sock # "connected" \/ n = 0
           THEN UNCHANGED <<wire, frames>>
           ELSE /\ wire' = wire \o SubSeq(masked_encode(m, key), 1, n)
                /\ frames' = Append(frames, masked_encode(m, key))
        /\ UNCHANGED <<peer, inbox, rcvd>>

StreamNext == StreamSend

StreamSpec == StreamInit /\ [][StreamNext]_vars

-----------------------------------------------------------------------------
(* RecvSpec: receive() calls on one Handshaken connection whose peer has written
   a sequence of frames; each recv returns a chunk of the bytes not yet read *)

\* the bufsize of the recv call
RecvBufSize == 2048

\* frames the peer writes
MaxPeerFrames == 2

\* what the peer writes: a ping and the text 'a'
PeerMessages ==
    {[kind |-> "ping", payload |-> <<>>], [kind |-> "text", payload |-> <<97>>]}

\* or one text a byte longer than the buffer
LongPeerMessage == [kind |-> "text", payload |-> [i \in 1..(RecvBufSize + 1) |-> 97]]

\* how many bytes one recv returns when buf is waiting: at least one, at most
\* the buffer size; the model keeps the frame lengths, all of buf, all but its
\* last byte, and a full buffer
ChunkSizes(buf) ==
    {n \in {Len(encode(m)) : m \in PeerMessages}
              \cup {Len(buf) - 1, Len(buf), RecvBufSize} :
        n >= 1 /\ n <= Len(buf) /\ n <= RecvBufSize}

\* a connection whose connect() and handshake() have returned, and a peer that
\* has written its frames
RecvInit ==
    /\ uri \in ConnUris
    /\ conn = init(uri)
    /\ sock = "connected"
    /\ handshaken = TRUE
    /\ last = Call("none")
    /\ IdleCodec
    /\ wire = <<>>
    /\ frames = <<>>
    /\ peer \in (SeqsUpTo(PeerMessages, MaxPeerFrames) \ {<<>>}) \cup {<<LongPeerMessage>>}
    /\ inbox = Flatten([i \in 1..Len(peer) |-> encode(peer[i])])
    /\ rcvd = <<>>

\* WebSocket.receive() while bytes are waiting: one recv of a chunk, then decode
StreamReceive ==
    /\ inbox # <<>>
    /\ \E k \in ChunkSizes(inbox) :
          LET data == SubSeq(inbox, 1, k)
              r == receive(data)
          IN  /\ ReceiveCall(TRUE, data)
              /\ inbox' = SubSeq(inbox, k + 1, Len(inbox))
              /\ rcvd' = IF r.err = "none"
                         THEN Append(rcvd, [kind |-> r.kind, payload |-> r.payload])
                         ELSE rcvd
    /\ UNCHANGED <<wire, frames, peer>>

RecvNext == StreamReceive

RecvSpec == RecvInit /\ [][RecvNext]_vars

-----------------------------------------------------------------------------
(* CodecSpec: one message encoded, then the bytes decoded, by one codec *)

NoObject ==
    /\ uri = <<>>
    /\ conn = NoConn("none")
    /\ sock = "none"
    /\ handshaken = FALSE
    /\ last = Call("none")

CodecInit ==
    /\ NoObject
    /\ cpc = "input"
    /\ cmsg \in Messages
    /\ ccodec \in {"plain", "masked"}
    /\ ckey \in MaskKeys
    /\ cbytes = <<>>
    /\ cout = Raised("none")
    /\ NoWire

\* codec.encode(msg)
Encode ==
    /\ cpc = "input"
    /\ cpc' = "encoded"
    /\ cbytes' = IF ccodec = "masked" THEN masked_encode(cmsg, ckey) ELSE encode(cmsg)
    /\ UNCHANGED <<cmsg, ccodec, ckey, cout, connVars, uri, wireVars>>

\* codec.decode(data) on the bytes encode returned
Decode ==
    /\ cpc = "encoded"
    /\ cpc' = "decoded"
    /\ cout' = IF ccodec = "masked" THEN masked_decode(cbytes) ELSE decode(cbytes)
    /\ UNCHANGED <<cmsg, ccodec, ckey, cbytes, connVars, uri, wireVars>>

CodecNext == Encode \/ Decode

CodecSpec == CodecInit /\ [][CodecNext]_vars

-----------------------------------------------------------------------------
(* SizeSpec: the codec on payloads around the length-field boundaries *)

SizeInit ==
    /\ NoObject
    /\ cpc = "input"
    /\ cmsg \in LongMessages
    /\ ccodec \in {"plain", "masked"}
    /\ ckey \in IF Len(cmsg.payload) > 127 THEN {<<37, 234, 102, 179>>} ELSE MaskKeys
    /\ cbytes = <<>>
    /\ cout = Raised("none")
    /\ NoWire

SizeSpec == SizeInit /\ [][CodecNext]_vars

-----------------------------------------------------------------------------
(* RawSpec: decode of bytes a peer wrote.  The bytes are the encoding of a text
   message by the codec, with any first byte in place of 0x81 and the last
   cut bytes missing *)

RawInit ==
    /\ NoObject
    /\ cpc = "encoded"
    /\ cmsg \in {m \in SentMessages : m.kind = "text"}
    /\ ccodec \in {"plain", "masked"}
    /\ ckey \in IF ccodec = "masked" THEN SentKeys ELSE {<<0, 0, 0, 0>>}
    /\ \E b \in 0..255, cut \in 0..1 :
          LET whole == IF ccodec = "masked" THEN masked_encode(cmsg, ckey)
                       ELSE encode(cmsg)
          IN  cbytes = <<b>> \o SubSeq(whole, 2, Len(whole) - cut)
    /\ cout = Raised("none")
    /\ NoWire

RawNext == Decode

RawSpec == RawInit /\ [][RawNext]_vars

-----------------------------------------------------------------------------
(* UriSpec: WebSocket(host) for one URI *)

UriInit ==
    /\ uri \in Uris
    /\ conn = NoConn("new")
    /\ sock = "none"
    /\ handshaken = FALSE
    /\ last = Call("none")
    /\ IdleCodec
    /\ NoWire

\* WebSocket.__init__: the socket is created only when no exception was raised
Construct ==
    /\ conn.ctor = "new"
    /\ conn' = init(uri)
    /\ sock' = IF init(uri).ctor = "ok" THEN "created" ELSE "none"
    /\ UNCHANGED <<uri, wireVars, handshaken, last, codecVars>>

UriNext == Construct

UriSpec == UriInit /\ [][UriNext]_vars

-----------------------------------------------------------------------------
(* Claims *)

\* C1 (CodecSpec): round trip.  For each of the five named kinds and every
\* payload, decoding what the codec encoded returns the message, for the plain
\* codec and for the masked codec with any key.
C1_RoundTrip ==
    (cpc = "decoded" /\ cmsg.kind \in NamedKinds)
        => cout = Returned(cmsg.kind, cmsg.payload)

\* C2: a send() or receive() called in a state other than Handshaken fails and
\* neither writes a frame to the transport nor reads from it.
C2_SendReceiveOnlyWhenHandshaken ==
    (last.op \in {"send", "receive"} /\ last.before # "Handshaken")
        => (last.err # "none" /\ last.wrote = "none" /\ ~last.didRead)

\* C3: when handshake() raises because the status was rejected or because the
\* Sec-WebSocket-Accept value did not validate, the transport is already closed.
C3_FailedHandshakeClosesTransport ==
    (last.shook /\ last.err \in {"Rejected", "NotValid"}) => sock = "closed"

\* C3 witness: a handshake on a connected socket got status 200 with a wrong
\* accept token, raised, and left the socket closed.
C3_Witness ==
    /\ last.op = "handshake"
    /\ last.before = "Connected"
    /\ last.didRead
    /\ last.err = "NotValid"
    /\ sock = "closed"

\* a success status: 2xx, or 101 Switching Protocols
IsSuccessStatus(code) == code = 101 \/ (code >= 200 /\ code <= 299)

\* C4: a handshake that read a response with a parsable status raises the
\* rejection exactly when the status is not a success code, and with a success
\* status (101 included) and a valid accept token it returns normally with the
\* transport open and the connection Handshaken.
C4_HandshakeOutcome ==
    (last.shook /\ last.didRead /\ last.resp.raw # <<>>
       /\ status(last.resp.line).err = "none")
        => LET code == status(last.resp.line).code
           IN  /\ (last.err = "Rejected") <=> ~IsSuccessStatus(code)
               /\ (IsSuccessStatus(code) /\ valid(last.nonce, last.resp.accept))
                     => (last.err = "none" /\ sock = "connected" /\ State = "Handshaken")

\* C5: whenever send() on a Handshaken connection returns without error, the
\* transport has accepted every byte of the encoded frame.
C5_SendDrainsPartialWrites ==
    (last.op = "send" /\ last.before = "Handshaken" /\ last.err = "none")
        => last.accepted = Len(last.offered)

\* C6 (UriSpec): a constructed connection uses the secure transport if and only
\* if its scheme is wss or its port is 443.
C6_SecureIffWssOr443 ==
    conn.ctor = "ok" => (conn.secure <=> (conn.scheme = SchemeWss \/ conn.port = 443))

\* C7: close() raises nothing and leaves the connection Closed from every state;
\* an operation called on a Closed connection leaves it Closed and does no
\* transport I/O.
C7_ClosedIsTerminal ==
    /\ last.op = "close" => (last.err = "none" /\ State = "Closed")
    /\ last.before = "Closed"
          => (State = "Closed" /\ last.wrote = "none" /\ last.accepted = 0 /\ ~last.didRead)

\* C7 witness: a send() was called on a connection that had been handshaken and
\* then closed.
C7_Witness ==
    /\ last.op = "send"
    /\ last.before = "Closed"
    /\ handshaken
    /\ last.err = "OSError"

\* C8: every frame send() writes on a Handshaken connection is a masked frame:
\* bit 7 of byte 2 is set, the length field is followed by the generated key,
\* and payload byte i on the wire is plaintext byte i XOR key[i mod 4].
C8_SentFramesAreMasked ==
    (last.op = "send" /\ last.before = "Handshaken" /\ last.wrote = "frame")
        => LET f == last.offered
               p == StrEncode(last.arg.payload)
           IN  /\ Len(f) = 2 + Len(SizeBytes(Len(p))) + 4 + Len(p)
               /\ f[2] \div 128 = 1
               /\ SubSeq(f, Len(f) - Len(p) - 3, Len(f) - Len(p)) = last.key
               /\ \A i \in 1..Len(p) :
                     f[Len(f) - Len(p) + i] = Xor8(p[i], last.key[((i - 1) % 4) + 1])

\* C9: receive() on a Handshaken connection returns m whenever the transport
\* yields the plain encoding of m or a masked encoding of m (stated for the kinds
\* encode has an opcode for, whose encodings are whole frames).
C9_ReceiveReturnsMessage ==
    \A m \in SentMessages, k \in SentKeys :
        (last.op = "receive" /\ last.before = "Handshaken" /\ last.didRead
           /\ OpcodeBytes(m.kind) # <<>>
           /\ last.read \in {encode(m), masked_encode(m, k)})
            => (last.err = "none" /\ last.ret = m)

\* C10: a receive() whose read yields zero bytes raises EOFError and returns no
\* message.
C10_ZeroReadRaisesEOF ==
    (last.op = "receive" /\ last.didRead /\ last.read = <<>>)
        => (last.err = "EOFError" /\ last.ret = NoMsg)

\* C10 witness: a receive() on a handshaken connection read zero bytes.
C10_Witness ==
    /\ last.op = "receive"
    /\ last.before = "Handshaken"
    /\ last.didRead
    /\ last.read = <<>>
    /\ last.err = "EOFError"


\* C11: a handshake() called in a state other than Connected fails and writes no
\* upgrade request to the transport.
C11_HandshakeOnlyWhenConnected ==
    (last.op = "handshake" /\ last.before # "Connected")
        => (last.err # "none" /\ last.wrote = "none")


WholeFrame ==
    Len(cbytes) = Len(IF ccodec = "masked" THEN masked_encode(cmsg, ckey) ELSE encode(cmsg))

\* C13 (RawSpec): decode of a frame (two bytes or more) whose opcode, the low
\* four bits of byte 1, is none of 1, 2, 8, 9, 10 raises the unknown-type error
\* and returns nothing; decode of a whole frame with opcode 1, 2, 8, 9, 10
\* returns kind text, binary, close, ping, pong, whatever the upper four bits.
C13_OpcodeDispatch ==
    (cpc = "decoded" /\ Len(cbytes) >= 2)
        => LET code == cbytes[1] % 16
           IN  /\ code \notin {1, 2, 8, 9, 10} => cout = Raised("UnknownType")
               /\ (code \in {1, 2, 8, 9, 10} /\ WholeFrame)
                     => /\ cout.err = "none"
                        /\ cout.kind = CASE code = 1 -> "text"
                                         [] code = 2 -> "binary"
                                         [] code = 8 -> "close"
                                         [] code = 9 -> "ping"
                                         [] code = 10 -> "pong"

\* C13 witness: a whole masked frame whose first byte is 0x83 (opcode 3) was
\* decoded and the unknown-type error raised.
C13_Witness ==
    /\ cpc = "decoded"
    /\ ccodec = "masked"
    /\ WholeFrame
    /\ cbytes[1] = 131
    /\ cout = Raised("UnknownType")


\* C14 (StreamSpec): after any sequence of send() calls on a Handshaken
\* connection, the bytes the transport has been given are the concatenation, in
\* call order, of the encoded frames of the calls that returned.
C14_WireIsFramesInOrder ==
    wire = Flatten(frames)


\* C15: a handshake that read a 200 response carrying a Sec-WebSocket-Accept
\* header returns normally if and only if the header's token is the accept token
\* of the key generated for that same handshake; with any other token (a wrong
\* one, or the accept token of another key) it raises the validation error.
C15_AcceptValidatedAgainstOwnKey ==
    (last.shook /\ last.didRead /\ last.resp.raw # <<>>
       /\ status(last.resp.line) = [err |-> "none", code |-> 200]
       /\ last.resp.accept # NoHeader)
        => /\ (last.err = "none") <=> (last.resp.accept = AcceptOf(last.nonce))
           /\ (last.err # "none") => last.err = "NotValid"

\* C15 witness: a handshake got status 200 with the accept token of a key other
\* than its own, and raised the validation error.
C15_Witness ==
    /\ last.shook
    /\ last.didRead
    /\ status(last.resp.line).code = 200
    /\ \E k \in Nonces : k # last.nonce /\ last.resp.accept = AcceptOf(k)
    /\ last.err = "NotValid"

\* C16 (UriSpec): constructing from a URI the pattern does not match, or whose
\* scheme is not ws or wss, raises ValueError and creates no socket; for an
\* accepted URI the port is the explicit port, else 443 for wss, else 80.
C16_BadUriRaisesValueError ==
    conn.ctor # "new"
        => /\ conn.ctor # "ok" => (conn.ctor = "ValueError" /\ sock = "none")
           /\ conn.ctor = "ok"
                 => conn.port = IF UriMatch(uri).hasPort
                                THEN ParseInt(UriMatch(uri).portDigits)
                                ELSE IF conn.scheme = SchemeWss THEN 443 ELSE 80


\* C17 (StreamSpec): no two frames written on one connection are byte-identical.
\* A frame carries its key and its kind, so two frames are identical exactly
\* when they encode the same message under the same generated key.
C17_NoTwoFramesIdentical ==
    \A i \in 1..Len(frames), j \in 1..Len(frames) : i # j => frames[i] # frames[j]

\* C18: whenever handshake() called on a Connected connection raises, the
\* connection is Closed.
C18_HandshakeErrorClosesTransport ==
    (last.op = "handshake" /\ last.before = "Connected" /\ last.err # "none")
        => State = "Closed"

\* C20 (CodecSpec): the bytes encode returns begin with a well-formed header: an
\* opcode marker byte (0x81, 0x82, 0x88, 0x89 or 0x8A) and then the length field
\* (these payloads are under 126 bytes, so its low seven bits are the length).
C20_EncodedBeginsWithOpcode ==
    cpc # "input"
        => /\ Len(cbytes) >= 2
           /\ cbytes[1] \in {129, 130, 136, 137, 138}
           /\ cbytes[2] % 128 = Len(StrEncode(cmsg.payload))


\* C19 (RecvSpec): however recv chunks the peer's bytes, the messages receive()
\* has returned are the first of the peer's frames, each once, whole and in order,
\* and once every byte has been read they are all of the peer's frames.
C19_ReceivePreservesFrames ==
    /\ \E n \in 0..Len(peer) : rcvd = SubSeq(peer, 1, n)
    /\ inbox = <<>> => rcvd = peer

=============================================================================
